---------------------------- MODULE Spec2Model ----------------------------
(***************************************************************************)
(* Colorway Designer: the seeded Voronoi visualisation, the weighted       *)
(* colour sampler, the linear congruential generator and the bounded       *)
(* colour-transform cache, as state machines.                              *)
(*                                                                         *)
(* Numbers.  The generator works on IEEE doubles that hold integers below  *)
(* 2^53, so its arithmetic is exact integer arithmetic.  TLC's integers    *)
(* are 32 bits wide, so a generator state is kept as a sign and two 16-bit *)
(* limbs: [neg, hi, lo] is the integer (+/-)(hi * 2^16 + lo).  An output   *)
(* current / 4294967296 is the same record read as a fraction of 2^32.     *)
(* Seeds are integers of magnitude below 2^31; densities are integers.     *)
(***************************************************************************)
EXTENDS Integers, Sequences, FiniteSets

VARIABLES
    lcg,        \* createSeededRandom harness: [seed, current, out, draws]
    sampler,    \* the samplers' harness: [colors, other, seed, called, result, result2,
                \* calledWeighted, weighted]
    field,      \* generateSeededPoints harness: [count, width, height, seed, called, points]
    pass,       \* the per-cell draws of one render pass: [base, i, red]
    lighting,   \* one colour string under one light: [hexColor, lightId, called,
                \* returned, outcome]
    colorTransformCache,  \* lightingUtils.ts: the Map, as its entries in insertion order;
                          \* an entry's "at" is the number of the store that inserted it
    cacheLog,   \* getCachedColorTransform harness: the last call, the key last read
                \* by a hit, and the counts of keys issued, stores and evictions
    app,        \* App state: [colors, nextId, scale, temporaryColorId,
                \* temporaryColorHex]; colors is a sequence of [id, hex, density],
                \* scale is in tenths, nextId stands for the random id the next
                \* created colour gets
    viz,        \* VoronoiVisualization: the lightSource prop (an id or Unlit) and
                \* the state [canvasSize, seed, cachedPoints]; cachedPoints is
                \* [length, head], head being the first points
    react,      \* [mounted, pointDeps, dirty]: the dependencies the point effect last
                \* ran with, and whether a render is scheduled
    canvas,     \* what the last render pass drew
    viewLog,    \* [regenerated, seed0]: whether Regenerate was pressed, and the first seed
    sidebar,    \* what the sidebar holds of App's last render: [colorsLength, nextId,
                \* entries, saved]; colorsLength is colors.length as the handlers of
                \* that render captured it, the colours it listed are those created
                \* before nextId, entries names the inputs this run draws from,
                \* saved is <<colorId, hex>> of the last save of the editor
    luminance,  \* getColorLuminance harness: [r, g, b, called, own, engine]
    expansion,  \* the cell expansion of one render pass
    url         \* useURLState: [address, isInitialLoad, isUpdatingFromURL, mounted,
                \* render, debounce, resets, written, writtenWhileUpdating,
                \* applied]: the state the
                \* address bar encodes, the two refs, whether the hook is mounted,
                \* what scheduled the render whose effect has not run yet, the
                \* pending call of the debounced writer, the number of pending
                \* timers that reset isUpdatingFromURL, what caused the state
                \* updateURL last wrote and whether isUpdatingFromURL was set at
                \* a call of updateURL, and whether a state of the URL was applied

harness == <<lcg, sampler, field, pass, lighting>>
cacheVars == <<colorTransformCache, cacheLog>>
view == <<app, viz, react, canvas, viewLog, sidebar>>
probes == <<luminance, expansion, url>>
vars == <<harness, cacheVars, view, probes>>

-----------------------------------------------------------------------------
(* Bounds of the model *)

MaxDraws == 5          \* outputs drawn from one stream
MaxSeed == 12          \* seeds -MaxSeed .. MaxSeed, besides the large ones
MaxLen == 3            \* colours in a sampled palette
MaxDensity == 2        \* densities 0 .. MaxDensity
MaxCount == 3          \* points asked of generateSeededPoints
MaxOverflow == 2       \* distinct keys issued beyond MAX_CACHE_SIZE
MaxEvictions == 3      \* evictions in one run of the cache
MaxIds == 2            \* colours created in one run of the application
MaxCells == 1          \* cells of a render pass whose points and fills are followed
MaxEdited == 2         \* colours created in a run that draws from every input
MaxOver == 2           \* colours created beyond MAX_COLORS in a run of plain additions

-----------------------------------------------------------------------------
(* Program constants *)

Multiplier == 1664525
Increment == 1013904223
B == 256 * 256                     \* 4294967296 = B * B
MulHi == Multiplier \div B
MulLo == Multiplier % B
IncHi == Increment \div B
IncLo == Increment % B

Abs(n) == IF n < 0 THEN 0 - n ELSE n

\* A JavaScript number holding the integer n
ToNum(n) == [neg |-> n < 0, hi |-> Abs(n) \div B, lo |-> Abs(n) % B]

Zero == [neg |-> FALSE, hi |-> 0, lo |-> 0]

\* current = (current * 1664525 + 1013904223) % 4294967296, with JavaScript's
\* remainder: the result takes the sign of the dividend.
LcgStep(cur) ==
    LET t0 == cur.lo * MulLo
        p0 == t0 % B
        t1 == cur.hi * MulLo + cur.lo * MulHi + (t0 \div B)
        p1 == t1 % B
        p2 == cur.hi * MulHi + (t1 \div B)   \* |cur| * Multiplier = p2*B^2 + p1*B + p0
        \* cur >= 0: (P + Increment) % 2^32
        s0 == p0 + IncLo
        s1 == p1 + IncHi + (s0 \div B)
        \* cur < 0: the dividend is Increment - P
        pGeq == p2 > 0 \/ p1 > IncHi \/ (p1 = IncHi /\ p0 >= IncLo)
        d0 == (p0 + B - IncLo) % B
        d1 == (p1 + 2 * B - IncHi - (IF p0 < IncLo THEN 1 ELSE 0)) % B
        e0 == (IncLo + B - p0) % B
        e1 == IncHi - p1 - (IF IncLo < p0 THEN 1 ELSE 0)
    IN  IF ~cur.neg \/ (cur.hi = 0 /\ cur.lo = 0)
        THEN [neg |-> FALSE, hi |-> s1 % B, lo |-> s0 % B]
        ELSE IF pGeq
             THEN [neg |-> (d1 # 0 \/ d0 # 0), hi |-> d1, lo |-> d0]
             ELSE [neg |-> FALSE, hi |-> e1, lo |-> e0]

\* createSeededRandom(seed): the stream's state before any draw
createSeededRandom(seed) == ToNum(seed)

\* The stream's state after k draws; the k-th output is this state / 2^32
RECURSIVE StreamState(_, _)
StreamState(seed, k) ==
    IF k = 0 THEN createSeededRandom(seed) ELSE LcgStep(StreamState(seed, k - 1))

-----------------------------------------------------------------------------
(* Strings.  A colour string is the sequence of its characters, so "#FF0000"
   is <<"#", "F", "F", "0", "0", "0", "0">>. *)

UpperDigits == <<"0", "1", "2", "3", "4", "5", "6", "7", "8", "9",
                 "A", "B", "C", "D", "E", "F">>
LowerDigits == <<"0", "1", "2", "3", "4", "5", "6", "7", "8", "9",
                 "a", "b", "c", "d", "e", "f">>

Range(f) == {f[i] : i \in DOMAIN f}

\* [A-Fa-f0-9]
IsHexDigit(c) == c \in Range(UpperDigits) \cup Range(LowerDigits)

\* The value of a hexadecimal digit
DigitValue(c) ==
    (CHOOSE i \in 1 .. 16 : UpperDigits[i] = c \/ LowerDigits[i] = c) - 1

\* The six-digit upper-case colour string of the number n
HexOf(n) ==
    <<"#">> \o [k \in 1 .. 6 |->
                   UpperDigits[((n \div (IF k = 6 THEN 1 ELSE IF k = 5 THEN 16
                                          ELSE IF k = 4 THEN 256 ELSE IF k = 3 THEN 4096
                                          ELSE IF k = 2 THEN 65536 ELSE 1048576)) % 16) + 1]]

\* /^#([A-Fa-f0-9]{6}|[A-Fa-f0-9]{3})$/.test(hex)
isValidHexColor(hex) ==
    /\ Len(hex) \in {4, 7}
    /\ hex[1] = "#"
    /\ \A i \in 2 .. Len(hex) : IsHexDigit(hex[i])

\* The upper-case form of a digit or of a letter a to f; the strings that
\* are upper-cased hold no other letter
UpperOf(c) ==
    IF c \in Range(LowerDigits)
    THEN UpperDigits[CHOOSE i \in 1 .. 16 : LowerDigits[i] = c]
    ELSE c

toUpperCase(hex) == [i \in DOMAIN hex |-> UpperOf(hex[i])]

\* hex.startsWith('#')
startsWith(hex) == Len(hex) > 0 /\ hex[1] = "#"

Black == HexOf(0)
Red == HexOf(255 * 65536)
Blue == HexOf(255)

-----------------------------------------------------------------------------
(* colorUtils.ts: the weighted sampler *)

RECURSIVE SumDensity(_, _)
SumDensity(colors, k) ==
    IF k = 0 THEN 0 ELSE SumDensity(colors, k - 1) + colors[k].density

calculateTotalDensity(colors) == SumDensity(colors, Len(colors))

\* randomValue <= cumulativeDensity, where randomValue = u * totalDensity,
\* for totalDensity > 0 and cumulativeDensity >= 0
RandomValueLeq(u, totalDensity, cumulativeDensity) ==
    LET t == u.lo * totalDensity
        q == u.hi * totalDensity + (t \div B)
        r == t % B
    IN  \/ (u.neg /\ cumulativeDensity >= 0)
        \/ (~u.neg /\ (q < cumulativeDensity * B \/ (q = cumulativeDensity * B /\ r = 0)))

\* A scan that returns at the first cumulative density strictly above r
RECURSIVE ScanCumulativeStrict(_, _, _, _, _)
ScanCumulativeStrict(colors, u, totalDensity, i, cumulativeDensity) ==
    LET c == cumulativeDensity + colors[i].density
    IN  IF RandomValueLeq(u, totalDensity, c)
           /\ ~(~u.neg /\ u.hi * totalDensity + ((u.lo * totalDensity) \div B) = c * B
                /\ (u.lo * totalDensity) % B = 0)
        THEN i
        ELSE IF i = Len(colors) THEN Len(colors)
        ELSE ScanCumulativeStrict(colors, u, totalDensity, i + 1, c)

\* for (const color of colors) { cumulativeDensity += color.density; ... }
\* with the fallback to the last colour
RECURSIVE ScanCumulative(_, _, _, _, _)
ScanCumulative(colors, u, totalDensity, i, cumulativeDensity) ==
    LET c == cumulativeDensity + colors[i].density
    IN  IF RandomValueLeq(u, totalDensity, c) THEN i
        ELSE IF i = Len(colors) THEN Len(colors)
        ELSE ScanCumulative(colors, u, totalDensity, i + 1, c)

\* Math.floor(u * n) as a 1-based position; 0 when the index is negative
\* (colors[negative] is undefined)
UniformIndex(u, n) ==
    IF u.neg THEN 0 ELSE ((u.hi * n + ((u.lo * n) \div B)) \div B) + 1

EmptyPalette == [error |-> "Cannot select from empty color array"]
Undefined == [undefined |-> TRUE]
IsColor(r) == "id" \in DOMAIN r

\* A sampler that leaves black colours out of the draw
getSeededRandomColorSkippingBlack(colors, seed) ==
    LET cs == [i \in DOMAIN colors |->
                 IF colors[i].hex = Black
                 THEN [colors[i] EXCEPT !.density = 0] ELSE colors[i]]
        u == LcgStep(createSeededRandom(seed))
        totalDensity == calculateTotalDensity(cs)
    IN  IF Len(cs) = 0 THEN EmptyPalette
        ELSE IF Len(cs) = 1 THEN cs[1]
        ELSE IF totalDensity = 0
             THEN (IF UniformIndex(u, Len(cs)) = 0 THEN Undefined
                   ELSE colors[UniformIndex(u, Len(cs))])
             ELSE colors[ScanCumulative(cs, u, totalDensity, 1, 0)]

\* The same without the test of an empty array: colors[0] of an empty array
\* is undefined
getSeededRandomColorUnguarded(colors, seed) ==
    LET u == LcgStep(createSeededRandom(seed))
        totalDensity == calculateTotalDensity(colors)
    IN  IF Len(colors) = 0 THEN Undefined
        ELSE IF Len(colors) = 1 THEN colors[1]
        ELSE IF totalDensity = 0
             THEN (IF UniformIndex(u, Len(colors)) = 0 THEN Undefined
                   ELSE colors[UniformIndex(u, Len(colors))])
             ELSE colors[ScanCumulative(colors, u, totalDensity, 1, 0)]

getSeededRandomColor(colors, seed) ==
    LET u == LcgStep(createSeededRandom(seed))
        totalDensity == calculateTotalDensity(colors)
    IN  IF Len(colors) = 0 THEN EmptyPalette
        ELSE IF Len(colors) = 1 THEN colors[1]
        ELSE IF totalDensity = 0
             THEN (IF UniformIndex(u, Len(colors)) = 0 THEN Undefined
                   ELSE colors[UniformIndex(u, Len(colors))])
             ELSE colors[ScanCumulative(colors, u, totalDensity, 1, 0)]

\* getWeightedRandomColor, u being the outcome of its Math.random() call
getWeightedRandomColor(palette, u) ==
    LET totalDensity == calculateTotalDensity(palette)
    IN  IF Len(palette) = 0 THEN EmptyPalette
        ELSE IF Len(palette) = 1 THEN palette[1]
        ELSE IF totalDensity = 0 THEN palette[UniformIndex(u, Len(palette))]
        ELSE palette[ScanCumulative(palette, u, totalDensity, 1, 0)]


-----------------------------------------------------------------------------
(* voronoiUtils.ts: the seeded point field *)

\* random() * width: the digits, base 2^16, of |u| * width over 2^32; d2 is
\* the whole part of the coordinate
Scale(u, width) ==
    LET t0 == u.lo * width
        t1 == u.hi * width + (t0 \div B)
    IN  [neg |-> u.neg, d2 |-> t1 \div B, d1 |-> t1 % B, d0 |-> t0 % B]

\* for (let i = 0; i < count; i++) { x = random() * width; y = random() * height; ... }
RECURSIVE PointLoop(_, _, _, _, _, _)
PointLoop(i, count, width, height, current, points) ==
    IF i >= count THEN points
    ELSE LET cx == LcgStep(current)
             cy == LcgStep(cx)
         IN  PointLoop(i + 1, count, width, height, cy,
                       Append(points, <<Scale(cx, width), Scale(cy, height)>>))

\* A generator that starts a new stream for every point
generateSeededPointsReseeding(count, width, height, seed) ==
    [i \in 1 .. (IF count > 0 THEN count ELSE 0) |->
        <<Scale(StreamState(seed + (i - 1), 1), width),
          Scale(StreamState(seed + (i - 1), 2), height)>>]

generateSeededPoints(count, width, height, seed) ==
    PointLoop(0, count, width, height, createSeededRandom(seed), <<>>)

-----------------------------------------------------------------------------
(* lightingUtils.ts: numbers.  The pipeline works on doubles; a double is
   kept as what decides the paths of the code: "NaN", "zero", or "finite"
   for any other number. *)

\* A sum of products of the numbers in kinds with constant coefficients, as
\* in the matrix rows (a product with NaN is NaN, also when the coefficient
\* is 0)
Combine(kinds) ==
    IF "NaN" \in kinds THEN "NaN"
    ELSE IF kinds = {"zero"} THEN "zero"
    ELSE "finite"

\* parseInt(c1 + c2, 16): an integer, or NaN when no digit follows the
\* optional blank or sign, or the 0x prefix
parseInt(c1, c2) ==
    IF c1 = "0" /\ c2 \in {"x", "X"} THEN [nan |-> TRUE, n |-> 0]
    ELSE IF IsHexDigit(c1)
    THEN [nan |-> FALSE,
          n |-> IF IsHexDigit(c2) THEN 16 * DigitValue(c1) + DigitValue(c2)
                ELSE DigitValue(c1)]
    ELSE IF c1 \in {" ", "+", "-"} /\ IsHexDigit(c2)
    THEN [nan |-> FALSE, n |-> IF c1 = "-" THEN 0 - DigitValue(c2) ELSE DigitValue(c2)]
    ELSE [nan |-> TRUE, n |-> 0]

\* parseInt(...) / 255
Channel(p) == IF p.nan THEN "NaN" ELSE IF p.n = 0 THEN "zero" ELSE "finite"

\* hex.replace('#', ''): the string without its first '#'
RemoveFirstHash(hex) ==
    IF \E i \in DOMAIN hex : hex[i] = "#"
    THEN LET at == CHOOSE i \in DOMAIN hex :
                      hex[i] = "#" /\ \A j \in 1 .. (i - 1) : hex[j] # "#"
         IN  SubSeq(hex, 1, at - 1) \o SubSeq(hex, at + 1, Len(hex))
    ELSE hex

\* The channels of cleanHex: shorthand, full form, or black for any other
\* length
ChannelsOf(cleanHex) ==
    IF Len(cleanHex) = 3
    THEN [r |-> Channel(parseInt(cleanHex[1], cleanHex[1])),
          g |-> Channel(parseInt(cleanHex[2], cleanHex[2])),
          b |-> Channel(parseInt(cleanHex[3], cleanHex[3]))]
    ELSE IF Len(cleanHex) = 6
    THEN [r |-> Channel(parseInt(cleanHex[1], cleanHex[2])),
          g |-> Channel(parseInt(cleanHex[3], cleanHex[4])),
          b |-> Channel(parseInt(cleanHex[5], cleanHex[6]))]
    ELSE [r |-> "zero", g |-> "zero", b |-> "zero"]

hexToRgb(hex) == ChannelsOf(RemoveFirstHash(hex))

\* value <= 0.04045 ? value / 12.92 : Math.pow((value + 0.055) / 1.055, 2.4):
\* the comparison is false for NaN and the power of NaN is NaN
srgbToLinear(value) == value

\* value <= 0.0031308 ? value * 12.92 : 1.055 * Math.pow(value, 1.0 / 2.4) - 0.055
linearToSrgb(value) == value

\* The same functions on numbers.  A channel is the double n / 255 for an
\* integer n; a linear value is kept as the branch taken and the fraction it
\* was computed from: [branch |-> "quotient", of |-> <<a, b>>] is
\* (a / b) / 12.92 and [branch |-> "power", of |-> <<a, b>>] is
\* Math.pow(a / b, 2.4), a / b being (n / 255 + 0.055) / 1.055.  The
\* thresholds are compared in hundred-thousandths.
Linear(atMost, n) ==
    IF atMost
    THEN [branch |-> "quotient", of |-> <<n, 255>>]
    ELSE [branch |-> "power", of |-> <<1000 * n + 55 * 255, 1055 * 255>>]

\* srgbToLinear(n / 255)
srgbToLinearOf(n) == Linear(100000 * n <= 4045 * 255, n)

\* srgbToXyz(r, g, b): the three linear channels it combines
LinearChannels(r, g, b) ==
    [r |-> srgbToLinearOf(r), g |-> srgbToLinearOf(g), b |-> srgbToLinearOf(b)]

\* toLinear with the threshold 0.045
toLinearLate(value) == Linear(100000 * value <= 4500 * 255, value)

\* colorUtils.ts, toLinear(value) inside getColorLuminance: value is 0 .. 255
toLinear(value) == Linear(100000 * value <= 3928 * 255, value)

\* getColorLuminance(r, g, b): the three linear channels of its weighted sum
getColorLuminance(r, g, b) ==
    [r |-> toLinear(r), g |-> toLinear(g), b |-> toLinear(b)]

\* Each of X, Y, Z is a combination of the three linear channels
srgbToXyz(r, g, b) ==
    LET lin == {srgbToLinear(r), srgbToLinear(g), srgbToLinear(b)}
    IN  [X |-> Combine(lin), Y |-> Combine(lin), Z |-> Combine(lin)]

\* applyMatrixTransform once the matrix is known to be 3x3
MatrixProduct(xyz) ==
    LET all == {xyz.X, xyz.Y, xyz.Z}
    IN  [X |-> Combine(all), Y |-> Combine(all), Z |-> Combine(all)]

\* Bradford adaptation from D65: three matrix products; the white points are
\* constants and no component of the source white is 0 in LMS
chromaticAdaptation(xyz) == MatrixProduct(MatrixProduct(MatrixProduct(xyz)))

\* xyzToSrgb without its two NaN tests
xyzToSrgbUnguarded(xyz) ==
    LET all == {xyz.X, xyz.Y, xyz.Z}
    IN  [r |-> linearToSrgb(Combine(all)), g |-> linearToSrgb(Combine(all)),
         b |-> linearToSrgb(Combine(all))]

\* xyzToSrgb: black for a NaN on the way in or on the way out
xyzToSrgb(xyz) ==
    LET out == xyzToSrgbUnguarded(xyz)
    IN  IF "NaN" \in {xyz.X, xyz.Y, xyz.Z} THEN [r |-> "zero", g |-> "zero", b |-> "zero"]
        ELSE IF "NaN" \in {out.r, out.g, out.b}
        THEN [r |-> "zero", g |-> "zero", b |-> "zero"]
        ELSE out

\* Math.max(0, Math.min(1, value)): NaN stays NaN
clampRgb(rgb) == rgb

\* rgbToHex of the channels times 255, rounded.  Black for a NaN channel;
\* the string of NaN channels is never built.  For channels that are
\* numbers the digits are not followed: the result says only whether it is
\* "#000000".
NotAHex == <<"#", "N", "A", "N", "N", "A", "N">>
AnyHex == <<"#", "?", "?", "?", "?", "?", "?">>

rgbToHexUnguarded(r, g, b) ==
    IF "NaN" \in {r, g, b} THEN NotAHex
    ELSE IF {r, g, b} = {"zero"} THEN Black
    ELSE AnyHex

rgbToHex(r, g, b) ==
    IF "NaN" \in {r, g, b} THEN Black ELSE rgbToHexUnguarded(r, g, b)

-----------------------------------------------------------------------------
(* lightingUtils.ts: the light sources and the transform cache *)

MAX_CACHE_SIZE == 1000

None == [none |-> TRUE]
Thrown == <<"Error", "Transform matrix must be 3x3">>
NoMatrix == [rows |-> 0, cols |-> 0]

\* The registry: ids and the shape of a direct transform matrix, if any
LIGHT_SOURCES ==
    <<[id |-> "incandescent-a", transformMatrix |-> NoMatrix],
      [id |-> "fluorescent-f2", transformMatrix |-> NoMatrix],
      [id |-> "led-5000k", transformMatrix |-> NoMatrix],
      [id |-> "red-660nm", transformMatrix |-> [rows |-> 3, cols |-> 3]]>>

\* A lookup that falls back to the first light source for an unknown id
FindLightSourceOrFirst(lightId) ==
    IF \E i \in DOMAIN LIGHT_SOURCES : LIGHT_SOURCES[i].id = lightId
    THEN LIGHT_SOURCES[CHOOSE i \in DOMAIN LIGHT_SOURCES : LIGHT_SOURCES[i].id = lightId]
    ELSE LIGHT_SOURCES[1]

\* LIGHT_SOURCES.find(l => l.id === lightId)
FindLightSource(lightId) ==
    IF \E i \in DOMAIN LIGHT_SOURCES : LIGHT_SOURCES[i].id = lightId
    THEN LIGHT_SOURCES[CHOOSE i \in DOMAIN LIGHT_SOURCES :
                          /\ LIGHT_SOURCES[i].id = lightId
                          /\ \A j \in 1 .. (i - 1) : LIGHT_SOURCES[j].id # lightId]
    ELSE Undefined

\* The colour hexColor as it appears under the light lightId: the string the
\* pipeline encodes from channels that are numbers, kept as a term
Lit(hexColor, lightId) == hexColor \o <<"under", lightId>>

\* matrix.length !== 3 || matrix[0].length !== 3
NotThreeByThree(matrix) == matrix.rows # 3 \/ matrix.cols # 3

\* applyMatrixTransform throws unless the matrix is 3x3
applyMatrixTransform(xyz, matrix) ==
    IF NotThreeByThree(matrix) THEN Thrown ELSE MatrixProduct(xyz)

\* Steps 1 and 2: hexToRgb, then srgbToXyz of its channels
ChannelsToXyz(rgb) == srgbToXyz(rgb.r, rgb.g, rgb.b)

\* Step 3: the matrix of the light source, or the adaptation to its white point
TransformXyz(xyz, lightSource) ==
    IF lightSource.transformMatrix # NoMatrix
    THEN applyMatrixTransform(xyz, lightSource.transformMatrix)
    ELSE chromaticAdaptation(xyz)

\* The string rgbToHex built: "#000000", or the term of the lit colour
Encoded(encoded, hexColor, lightSource) ==
    IF encoded = AnyHex THEN Lit(hexColor, lightSource.id) ELSE encoded

\* Step 5 without the NaN test of rgbToHex
EncodeUnguarded(clampedRgb, hexColor, lightSource) ==
    Encoded(rgbToHexUnguarded(clampedRgb.r, clampedRgb.g, clampedRgb.b),
            hexColor, lightSource)

\* Step 5: rgbToHex of the clamped channels
Encode(clampedRgb, hexColor, lightSource) ==
    Encoded(rgbToHex(clampedRgb.r, clampedRgb.g, clampedRgb.b), hexColor, lightSource)

\* The pipeline with none of its NaN tests
transformColorForLightingUnguarded(hexColor, lightSource) ==
    IF lightSource.transformMatrix # NoMatrix
       /\ NotThreeByThree(lightSource.transformMatrix)
    THEN Thrown
    ELSE EncodeUnguarded(
             clampRgb(xyzToSrgbUnguarded(
                 TransformXyz(ChannelsToXyz(hexToRgb(hexColor)), lightSource))),
             hexColor, lightSource)

\* hexToRgb, srgbToXyz, the matrix or the adaptation, xyzToSrgb, clampRgb,
\* rgbToHex; the throw of applyMatrixTransform leaves the function
transformColorForLighting(hexColor, lightSource) ==
    IF lightSource.transformMatrix # NoMatrix
       /\ NotThreeByThree(lightSource.transformMatrix)
    THEN Thrown
    ELSE Encode(
             clampRgb(xyzToSrgb(
                 TransformXyz(ChannelsToXyz(hexToRgb(hexColor)), lightSource))),
             hexColor, lightSource)

CacheHas(cache, cacheKey) == \E i \in DOMAIN cache : cache[i].key = cacheKey

\* A lookup that reads the entry inserted first, whatever its key
CacheGetFirst(cache, cacheKey) == cache[1].value

\* colorTransformCache.get(cacheKey)
CacheGet(cache, cacheKey) == cache[CHOOSE i \in DOMAIN cache : cache[i].key = cacheKey].value

\* if (colorTransformCache.size > MAX_CACHE_SIZE): an eviction test that is one late
CacheIsFullOneLate(cache) == Len(cache) > MAX_CACHE_SIZE

\* if (colorTransformCache.size >= MAX_CACHE_SIZE)
CacheIsFull(cache) == Len(cache) >= MAX_CACHE_SIZE

\* An eviction of the entry inserted last
EvictNewest(cache) ==
    IF cache = <<>> THEN cache ELSE SubSeq(cache, 1, Len(cache) - 1)

\* const firstKey = colorTransformCache.keys().next().value;
\* if (firstKey !== undefined) colorTransformCache.delete(firstKey);
EvictFirstKey(cache) ==
    IF cache = <<>> THEN cache ELSE Tail(cache)

\* A call that leaves the Map as it is
Same(cache, stores, outcome, returned) ==
    [cache |-> cache, stores |-> stores, returned |-> returned, outcome |-> outcome]

\* The try block, transformed being what transformColorForLighting gave: the
\* eviction when the Map is full, the store, the return; the catch when it
\* threw
Store(cache, stores, hexColor, lightId, transformed) ==
    IF transformed = Thrown THEN Same(cache, stores, "error", hexColor)
    ELSE [cache |-> Append(IF CacheIsFull(cache) THEN EvictFirstKey(cache) ELSE cache,
                           [key |-> <<hexColor, lightId>>, value |-> transformed,
                            at |-> stores + 1]),
          stores |-> stores + 1, returned |-> transformed, outcome |-> "stored"]

\* The lookup of the light source and what follows it
Transform(cache, stores, hexColor, lightId, lightSource) ==
    IF lightSource = Undefined THEN Same(cache, stores, "no light source", hexColor)
    ELSE Store(cache, stores, hexColor, lightId,
               transformColorForLighting(hexColor, lightSource))

\* getCachedColorTransform(hexColor, lightId) on the cache after `stores` stores:
\* the cache after the call, the value returned, and what the call did
getCachedColorTransform(cache, stores, hexColor, lightId) ==
    IF CacheHas(cache, <<hexColor, lightId>>)
    THEN Same(cache, stores, "hit", CacheGet(cache, <<hexColor, lightId>>))
    ELSE Transform(cache, stores, hexColor, lightId, FindLightSource(lightId))

-----------------------------------------------------------------------------
(* Inputs *)

\* 634785765, 1708527589 and 653637408 have the first outputs 0, 1/4 and
\* (2^32 - 1) / 2^32; -1000 has a negative first output
LargeSeeds == {527, 1000, 2000, 999999, 634785765, 1708527589, 653637408, -1000}
SeedInputs == ((0 - MaxSeed) .. MaxSeed) \cup LargeSeeds
SamplerSeeds == {0} \cup LargeSeeds

HexInputs == {Red, Black}
Densities == 0 .. MaxDensity

\* Palettes of n colours with ids 1 .. n
Palettes(n) ==
    {[i \in 1 .. n |-> [id |-> i, hex |-> h[i], density |-> d[i]]] :
        h \in [1 .. n -> HexInputs], d \in [1 .. n -> Densities]}

\* The palettes with the ids and densities of colors, in the same order
Recoloured(colors) ==
    {[i \in DOMAIN colors |-> [colors[i] EXCEPT !.hex = h[i]]] :
        h \in [DOMAIN colors -> HexInputs]}

CanvasSizes == {150, 600}

\* outcomes of Math.random(), in [0, 1)
MathRandom == {[neg |-> FALSE, hi |-> h, lo |-> 0] : h \in {0, B - 1}}

-----------------------------------------------------------------------------
(* The generator, one draw at a time *)

LcgIdle == lcg = [seed |-> 0, current |-> Zero, out |-> Zero, draws |-> 0]

LcgInit ==
    \E seed \in SeedInputs :
        lcg = [seed |-> seed, current |-> createSeededRandom(seed),
               out |-> Zero, draws |-> 0]

\* return () => { current = ...; return current / 4294967296; }
random ==
    /\ lcg.draws < MaxDraws
    /\ lcg' = [lcg EXCEPT !.current = LcgStep(lcg.current),
                          !.out = LcgStep(lcg.current),
                          !.draws = lcg.draws + 1]
    /\ UNCHANGED <<sampler, field, pass, lighting, cacheVars, view, probes>>

(* The sampler, called on a palette and on a recoloured copy of it *)

SamplerIdle ==
    sampler = [colors |-> <<>>, other |-> <<>>, seed |-> 0, called |-> FALSE,
               result |-> Undefined, result2 |-> Undefined,
               calledWeighted |-> FALSE, weighted |-> Undefined]

SamplerInit ==
    \E n \in 0 .. MaxLen : \E colors \in Palettes(n) :
    \E other \in Recoloured(colors) : \E seed \in SamplerSeeds :
        sampler = [colors |-> colors, other |-> other, seed |-> seed,
                   called |-> FALSE, result |-> Undefined, result2 |-> Undefined,
                   calledWeighted |-> FALSE, weighted |-> Undefined]

CallGetSeededRandomColor ==
    /\ ~sampler.called
    /\ sampler' = [sampler EXCEPT
                      !.called = TRUE,
                      !.result = getSeededRandomColor(sampler.colors, sampler.seed),
                      !.result2 = getSeededRandomColor(sampler.other, sampler.seed)]
    /\ UNCHANGED <<lcg, field, pass, lighting, cacheVars, view, probes>>

CallGetWeightedRandomColor ==
    /\ ~sampler.calledWeighted
    /\ \E u \in MathRandom :
          sampler' = [sampler EXCEPT
                         !.calledWeighted = TRUE,
                         !.weighted = getWeightedRandomColor(sampler.colors, u)]
    /\ UNCHANGED <<lcg, field, pass, lighting, cacheVars, view, probes>>

SamplerNext == CallGetSeededRandomColor \/ CallGetWeightedRandomColor

(* The point generator *)

FieldIdle ==
    field = [count |-> 0, width |-> 0, height |-> 0, seed |-> 0,
             called |-> FALSE, points |-> <<>>]

FieldInit ==
    \E count \in 0 .. MaxCount : \E width \in CanvasSizes : \E height \in CanvasSizes :
    \E seed \in SeedInputs :
        field = [count |-> count, width |-> width, height |-> height, seed |-> seed,
                 called |-> FALSE, points |-> <<>>]

CallGenerateSeededPoints ==
    /\ ~field.called
    /\ field' = [field EXCEPT
                    !.called = TRUE,
                    !.points = generateSeededPoints(field.count, field.width,
                                                    field.height, field.seed)]
    /\ UNCHANGED <<lcg, sampler, pass, lighting, cacheVars, view, probes>>

(* The cache, called with keys in a fixed order of first use: the next key
   never used, the two oldest keys present, the key evicted last, and a light
   id that is not in the registry *)

NumLights == Len(LIGHT_SOURCES)

\* The n-th key: hex colour number n \div NumLights under light n % NumLights + 1
KeyNumber(n) == <<HexOf(n \div NumLights), LIGHT_SOURCES[(n % NumLights) + 1].id>>

NoCall == [key |-> None, outcome |-> "none", returned |-> None, evicted |-> None]

CacheIdle ==
    /\ colorTransformCache = <<>>
    /\ cacheLog = [call |-> NoCall, lastHit |-> None, issued |-> 0, stores |-> 0,
                   evictions |-> 0]

CacheInit == CacheIdle

CallInputs ==
    (IF cacheLog.issued < MAX_CACHE_SIZE + MaxOverflow
     THEN {KeyNumber(cacheLog.issued)} ELSE {})
    \cup {colorTransformCache[i].key : i \in (DOMAIN colorTransformCache) \cap {1, 2}}
    \cup (IF cacheLog.call.evicted # None THEN {cacheLog.call.evicted} ELSE {})
    \cup {<<HexOf(0), "natural">>, <<HexOf(MAX_CACHE_SIZE), "natural">>}

CallGetCachedColorTransform ==
    \E input \in CallInputs :
        LET r == getCachedColorTransform(colorTransformCache, cacheLog.stores,
                                         input[1], input[2])
            evicts == r.outcome = "stored" /\ Len(r.cache) <= Len(colorTransformCache)
        IN  /\ evicts => cacheLog.evictions < MaxEvictions
            /\ colorTransformCache' = r.cache
            /\ cacheLog' =
                  [call |-> [key |-> input, outcome |-> r.outcome,
                             returned |-> r.returned,
                             evicted |-> IF evicts THEN colorTransformCache[1].key
                                         ELSE None],
                   lastHit |-> IF r.outcome = "hit" THEN input ELSE cacheLog.lastHit,
                   issued |-> IF input = KeyNumber(cacheLog.issued)
                              THEN cacheLog.issued + 1 ELSE cacheLog.issued,
                   stores |-> r.stores,
                   evictions |-> IF evicts THEN cacheLog.evictions + 1
                                 ELSE cacheLog.evictions]
            /\ UNCHANGED <<harness, view, probes>>

(* The transform of one colour string, through the cache *)

\* Strings of six and of three characters after the '#', digits and others,
\* and strings of other shapes
ColorStrings ==
    {<<"#">> \o s : s \in [1 .. 6 -> {"0", "F", "G"}] \cup [1 .. 3 -> {"0", "a", "-"}]}
    \cup {<<>>, <<"#">>, <<"F", "F", "0", "0", "0", "0">>,
          <<"#", "#", "F", "F", "F", "F", "F">>, <<"#", "F", "F", "0", "0", "0">>,
          <<"#", "0", "x", "F", "F", "F", "F">>, <<"#", "-", "F", " ", "F", "+", "F">>,
          <<"r", "e", "d">>, <<"#", "F", "F", "0", "0", "0", "0", "0">>}

LightIds == {LIGHT_SOURCES[i].id : i \in DOMAIN LIGHT_SOURCES} \cup {"natural"}

LightingIdle ==
    lighting = [hexColor |-> <<>>, lightId |-> "natural", called |-> FALSE,
                returned |-> <<>>, outcome |-> "none"]

LightingInit ==
    \E hexColor \in ColorStrings : \E lightId \in LightIds :
        lighting = [hexColor |-> hexColor, lightId |-> lightId, called |-> FALSE,
                    returned |-> <<>>, outcome |-> "none"]

CallTransform ==
    /\ ~lighting.called
    /\ LET r == getCachedColorTransform(colorTransformCache, cacheLog.stores,
                                        lighting.hexColor, lighting.lightId)
       IN  /\ lighting' = [lighting EXCEPT !.called = TRUE, !.returned = r.returned,
                                           !.outcome = r.outcome]
           /\ colorTransformCache' = r.cache
           /\ cacheLog' = [cacheLog EXCEPT !.stores = r.stores]
    /\ UNCHANGED <<lcg, sampler, field, pass, view, probes>>

(* The seeded draws of one render pass over the weighted-convergence palette:
   cell i draws with the seed base + i *)

maxCells == 10000

RedBlue ==
    <<[id |-> 1, hex |-> Red, density |-> 3],
      [id |-> 2, hex |-> Blue, density |-> 1]>>

BaseSeeds == {0, 1700}

PassIdle == pass = [base |-> 0, i |-> 0, red |-> 0]

PassInit == \E base \in BaseSeeds : pass = [base |-> base, i |-> 0, red |-> 0]

\* const cellSeed = seed + i; const randomColor = getSeededRandomColor(colors, cellSeed);
DrawCell ==
    /\ pass.i < maxCells
    /\ pass' = [pass EXCEPT
                   !.i = pass.i + 1,
                   !.red = pass.red +
                       (IF getSeededRandomColor(RedBlue, pass.base + pass.i).id = 1
                        THEN 1 ELSE 0)]
    /\ UNCHANGED <<lcg, sampler, field, lighting, cacheVars, view, probes>>

-----------------------------------------------------------------------------
(* getColorLuminance and the transform's linearisation on the same channels *)

ChannelValues == 0 .. 255

LuminanceIdle ==
    luminance = [r |-> 0, g |-> 0, b |-> 0, called |-> FALSE, own |-> <<>>, engine |-> <<>>]

LuminanceInit ==
    \E r \in ChannelValues : \E g \in {10, 11} : \E b \in {0, 255} :
        luminance = [r |-> r, g |-> g, b |-> b, called |-> FALSE,
                     own |-> <<>>, engine |-> <<>>]

CallGetColorLuminance ==
    /\ ~luminance.called
    /\ luminance' = [luminance EXCEPT
           !.called = TRUE,
           !.own = getColorLuminance(luminance.r, luminance.g, luminance.b),
           !.engine = LinearChannels(luminance.r, luminance.g, luminance.b)]
    /\ UNCHANGED <<harness, cacheVars, view, expansion, url>>

ExpansionIdle == expansion = <<>>
UrlIdle == url = <<>>

ProbesIdle == LuminanceIdle /\ ExpansionIdle /\ UrlIdle

-----------------------------------------------------------------------------
(* The application: App's palette and scale, and VoronoiVisualization with
   its effects.  A handler runs when no render is scheduled; a commit is one
   render of the component followed by its effects, which read the state of
   that render. *)

MAX_COLORS == 10
minCells == 100

Unlit == "undefined"
LightInputs == {Unlit, "red-660nm"}
DensityInputs == {0, 1}
ScaleInputs == {1, 10}
Seeds == {7, 42}
\* offsetWidth and offsetHeight of the container
ContainerSizes == {<<100, 100>>, <<700, 692>>}

Min(a, b) == IF a < b THEN a ELSE b
Max(a, b) == IF a > b THEN a ELSE b

\* Math.round(minCells + (scale - 0.1) * (maxCells - minCells) / (4.0 - 0.1)),
\* scale = tenths / 10; the quotient is never half-way between two integers
cellCount(tenths) ==
    (2 * (minCells * 39 + (tenths - 1) * (maxCells - minCells)) + 39) \div 78

\* The slider of ScaleControl: min 0.1, max 4.0, step 0.1, in tenths
SliderTenths == 1 .. 40

\* The same interpolation, cut off instead of rounded
getCellCountTruncating(tenths) ==
    (minCells * 39 + (tenths - 1) * (maxCells - minCells)) \div 39

\* ScaleControl's getCellCount(scale): the interpolation, then Math.round
getCellCount(tenths) ==
    LET scaled == minCells * 39 + (tenths - 1) * (maxCells - minCells)
    IN  (2 * scaled + 39) \div 78

\* squareSize = Math.max(150, Math.min(containerWidth - 32, containerHeight - 92))
squareSize(container) == Max(150, Min(container[1] - 32, container[2] - 92))

InvalidHexColor == [error |-> "Invalid hex color format"]

\* createColor(hex): the default density 1 is valid; a fresh id
createColor(hex, id) ==
    IF ~isValidHexColor(hex) THEN InvalidHexColor
    ELSE [id |-> id, hex |-> toUpperCase(hex), density |-> 1]

\* The value of a point array: its length and its first MaxCells points.
\* Point i depends on the seed and on i only, so the first points of the
\* array are the array asked with a smaller count.
PointField(count, width, height, s) ==
    [length |-> IF count > 0 THEN count ELSE 0,
     head |-> generateSeededPoints(Min(count, MaxCells), width, height, s)]

NoPoints == [length |-> 0, head |-> <<>>]
NoDeps == <<>>

\* The dependencies the point effect compares, and the same with the palette added
PointDepsWithColors(count, size, s, palette) ==
    <<count, size.width, size.height, s, palette>>

\* [cellCount, canvasSize.width, canvasSize.height, seed]
PointDeps(count, size, s, palette) == <<count, size.width, size.height, s>>

\* colors.map(color => ({...color, hex: getCachedColorTransform(color.hex, lightSource.id)}))
RECURSIVE MapTransform(_, _, _, _)
MapTransform(palette, lightId, i, acc) ==
    IF i > Len(palette) THEN acc
    ELSE LET r == getCachedColorTransform(acc.cache, acc.stores, palette[i].hex, lightId)
         IN  MapTransform(palette, lightId, i + 1,
                 [colors |-> Append(acc.colors, [palette[i] EXCEPT !.hex = r.returned]),
                  cache |-> r.cache, stores |-> r.stores])

\* The memo: the palette itself without a light source
transformedColors(palette, light, cache, stores) ==
    IF light = Unlit THEN [colors |-> palette, cache |-> cache, stores |-> stores]
    ELSE MapTransform(palette, light, 1,
                      [colors |-> <<>>, cache |-> cache, stores |-> stores])

getRandomColor(palette, u) == getWeightedRandomColor(palette, u)

Blank == [width |-> 300, height |-> 150, flat |-> "", seeded |-> FALSE, cells |-> 0,
          points |-> <<>>, fills |-> <<>>]

\* A render pass without the test of an empty palette; a cell whose draw
\* raises is left without a fill
renderVoronoiToCanvasUnguarded(width, height, given, preGeneratedPoints, palette, count, outcomes) ==
    LET n == IF given THEN preGeneratedPoints.length
             ELSE IF count > 0 THEN count ELSE 0
    IN  [width |-> width, height |-> height, flat |-> "", seeded |-> given,
         cells |-> n,
         points |-> IF given THEN preGeneratedPoints.head ELSE <<>>,
         fills |-> [i \in 1 .. Min(n, MaxCells) |->
                       LET color == getRandomColor(palette, outcomes[i])
                       IN  IF IsColor(color) THEN color.hex ELSE <<>>]]

\* renderVoronoiToCanvas(canvas, preGeneratedPoints, colors, cellCount); the
\* further arguments of the caller are dropped.  given says whether
\* preGeneratedPoints is an array; outcomes are those of Math.random() in the
\* cell loop.  The points of generateRandomPoints are not followed.
renderVoronoiToCanvas(width, height, given, preGeneratedPoints, palette, count, outcomes) ==
    IF Len(palette) = 0
    THEN [width |-> width, height |-> height, flat |-> "#f3f4f6", seeded |-> FALSE,
          cells |-> 0, points |-> <<>>, fills |-> <<>>]
    ELSE LET n == IF given THEN preGeneratedPoints.length
                  ELSE IF count > 0 THEN count ELSE 0
         IN  [width |-> width, height |-> height, flat |-> "", seeded |-> given,
              cells |-> n,
              points |-> IF given THEN preGeneratedPoints.head ELSE <<>>,
              fills |-> [i \in 1 .. Min(n, MaxCells) |->
                            getRandomColor(palette, outcomes[i]).hex]]

\* null, for temporaryColorId and for temporaryColorHex
NoId == 0
NoHex == <<>>

AppStart ==
    [colors |-> <<>>, nextId |-> 1, scale |-> 10,
     temporaryColorId |-> NoId, temporaryColorHex |-> NoHex]

\* The bodies of App's handlers, as the state they leave.  A handler reads
\* colors.length from the render that created it and updates the current
\* state through setColors(prev => ...).

\* handleColorAdd(hex), length being colors.length of the handler's render; a
\* throw of createColor is caught and nothing is set
AfterColorAdd(state, length, hex) ==
    LET newColor == createColor(hex, state.nextId)
    IN  IF length >= MAX_COLORS \/ ~IsColor(newColor) THEN state
        ELSE [state EXCEPT !.colors = Append(@, newColor), !.nextId = @ + 1]

\* handleColorRemove(colorId)
AfterColorRemove(state, colorId) ==
    [state EXCEPT !.colors = SelectSeq(@, LAMBDA color : color.id # colorId)]

\* handleDensityChange(colorId, density)
AfterDensityChange(state, colorId, density) ==
    [state EXCEPT !.colors =
        [j \in DOMAIN @ |->
            IF @[j].id = colorId THEN [@[j] EXCEPT !.density = density] ELSE @[j]]]

\* handleColorChange(colorId, hex)
AfterColorChange(state, colorId, hex) ==
    [state EXCEPT !.colors =
        [j \in DOMAIN @ |->
            IF @[j].id = colorId THEN [@[j] EXCEPT !.hex = hex] ELSE @[j]]]

\* A temporary change that also writes the palette
AfterTemporaryColorChangeWritingPalette(state, colorId, hex) ==
    [AfterColorChange(state, colorId, hex) EXCEPT
        !.temporaryColorId = colorId, !.temporaryColorHex = hex]

\* handleTemporaryColorChange(colorId, hex)
AfterTemporaryColorChange(state, colorId, hex) ==
    [state EXCEPT !.temporaryColorId = colorId, !.temporaryColorHex = hex]

\* handleTemporaryColorClose()
AfterTemporaryColorClose(state) ==
    [state EXCEPT !.temporaryColorId = NoId, !.temporaryColorHex = NoHex]

\* A save that leaves the temporary state as it is
AfterTemporaryColorSaveKeepingOpen(state, colorId, hex) ==
    AfterColorChange(state, colorId, hex)

\* handleTemporaryColorSave(colorId, hex)
AfterTemporaryColorSave(state, colorId, hex) ==
    AfterTemporaryColorClose(AfterColorChange(state, colorId, hex))

\* handleReset()
AfterReset(state) == AfterTemporaryColorClose([state EXCEPT !.colors = <<>>])

\* visualizationColors: the palette with the temporary hex on the colour
\* being edited; null and the empty string are both falsy
visualizationColors(state) ==
    [j \in DOMAIN state.colors |->
        IF state.colors[j].id = state.temporaryColorId /\ state.temporaryColorHex # NoHex
        THEN [state.colors[j] EXCEPT !.hex = state.temporaryColorHex]
        ELSE state.colors[j]]

VizStart(light, s) ==
    [lightSource |-> light, canvasSize |-> [width |-> 600, height |-> 600],
     seed |-> s, cachedPoints |-> NoPoints]

LogStart(s) == [regenerated |-> FALSE, seed0 |-> s]

\* The sidebar of the first render, in a run of the visualisation
SidebarIdle == [colorsLength |-> 0, nextId |-> 1, entries |-> "none", saved |-> <<>>]

ViewIdle ==
    /\ app = AppStart
    /\ sidebar = SidebarIdle
    /\ viz = VizStart(Unlit, 0)
    /\ react = [mounted |-> FALSE, pointDeps |-> NoDeps, dirty |-> TRUE]
    /\ canvas = Blank
    /\ viewLog = LogStart(0)

\* useState initialisers: no colours, scale 1.0, canvas 600 x 600, a random
\* seed, no points; nothing is mounted
ViewInit ==
    /\ app = AppStart
    /\ sidebar = SidebarIdle
    /\ \E light \in LightInputs : \E s \in Seeds :
          /\ viz = VizStart(light, s)
          /\ viewLog = LogStart(s)
    /\ react = [mounted |-> FALSE, pointDeps |-> NoDeps, dirty |-> TRUE]
    /\ canvas = Blank

Interactive == react.mounted /\ ~react.dirty

\* A handler set state: a render is scheduled
Scheduled ==
    /\ react' = [react EXCEPT !.dirty = TRUE]
    /\ UNCHANGED <<viewLog, sidebar>>

handleColorAdd ==
    /\ Interactive
    /\ app.nextId <= MaxIds
    /\ \E hex \in HexInputs : app' = AfterColorAdd(app, Len(app.colors), hex)
    /\ Scheduled
    /\ UNCHANGED <<viz, canvas, harness, cacheVars, probes>>

handleColorRemove ==
    /\ Interactive
    /\ \E i \in DOMAIN app.colors : app' = AfterColorRemove(app, app.colors[i].id)
    /\ Scheduled
    /\ UNCHANGED <<viz, canvas, harness, cacheVars, probes>>

handleDensityChange ==
    /\ Interactive
    /\ \E i \in DOMAIN app.colors : \E density \in DensityInputs :
          app' = AfterDensityChange(app, app.colors[i].id, density)
    /\ Scheduled
    /\ UNCHANGED <<viz, canvas, harness, cacheVars, probes>>

handleColorChange ==
    /\ Interactive
    /\ \E i \in DOMAIN app.colors : \E hex \in HexInputs :
          app' = AfterColorChange(app, app.colors[i].id, hex)
    /\ Scheduled
    /\ UNCHANGED <<viz, canvas, harness, cacheVars, probes>>

handleScaleChange ==
    /\ Interactive
    /\ \E newScale \in ScaleInputs : app' = [app EXCEPT !.scale = newScale]
    /\ Scheduled
    /\ UNCHANGED <<viz, canvas, harness, cacheVars, probes>>

\* The parent hands another lightSource prop
onLightChange ==
    /\ Interactive
    /\ \E light \in LightInputs : viz' = [viz EXCEPT !.lightSource = light]
    /\ Scheduled
    /\ UNCHANGED <<app, canvas, harness, cacheVars, probes>>

\* A resize listener that also draws a new seed
updateCanvasSizeReseeding ==
    /\ Interactive
    /\ \E container \in ContainerSizes : \E s \in Seeds :
          viz' = [viz EXCEPT !.canvasSize = [width |-> squareSize(container),
                                             height |-> squareSize(container)],
                             !.seed = s]
    /\ Scheduled
    /\ UNCHANGED <<app, canvas, harness, cacheVars, probes>>

\* The window's resize listener
updateCanvasSize ==
    /\ Interactive
    /\ \E container \in ContainerSizes :
          viz' = [viz EXCEPT !.canvasSize = [width |-> squareSize(container),
                                             height |-> squareSize(container)]]
    /\ Scheduled
    /\ UNCHANGED <<app, canvas, harness, cacheVars, probes>>

\* The Regenerate Pattern button, rendered when colors.length > 0:
\* setSeed(Math.random() * 1000000)
regeneratePattern ==
    /\ Interactive
    /\ Len(app.colors) > 0
    /\ \E s \in Seeds : viz' = [viz EXCEPT !.seed = s]
    /\ react' = [react EXCEPT !.dirty = (viz'.seed # viz.seed)]
    /\ viewLog' = [viewLog EXCEPT !.regenerated = TRUE]
    /\ UNCHANGED <<app, canvas, sidebar, harness, cacheVars, probes>>

\* One render of VoronoiVisualization and its effects, in the order of their
\* declaration: the size effect (on mount), the point effect (when one of its
\* dependencies differs from the last run), the render effect.  The effects
\* read canvasSize, seed and cachedPoints of this render; what they set is
\* seen by the next one.
Commit ==
    /\ react.dirty
    /\ \E container \in ContainerSizes : \E outcomes \in [1 .. MaxCells -> MathRandom] :
          LET count == cellCount(app.scale)
              size == viz.canvasSize
              memo == transformedColors(visualizationColors(app), viz.lightSource,
                                        colorTransformCache, cacheLog.stores)
              deps == PointDeps(count, size, viz.seed, app.colors)
              generate == deps # react.pointDeps /\ size.width > 0 /\ size.height > 0
          IN  /\ viz' = [viz EXCEPT
                    !.canvasSize =
                        IF react.mounted THEN @
                        ELSE [width |-> squareSize(container),
                              height |-> squareSize(container)],
                    !.cachedPoints =
                        IF generate
                        THEN PointField(count, size.width, size.height, viz.seed)
                        ELSE @]
              /\ canvas' = renderVoronoiToCanvas(size.width, size.height,
                                                 viz.cachedPoints.length > 0,
                                                 viz.cachedPoints, memo.colors, count,
                                                 outcomes)
              /\ colorTransformCache' = memo.cache
              /\ cacheLog' = [cacheLog EXCEPT !.stores = memo.stores]
              /\ react' = [mounted |-> TRUE, pointDeps |-> deps,
                           dirty |-> ~react.mounted \/ generate]
    /\ UNCHANGED <<app, viewLog, sidebar, harness, probes>>

Init ==
    ViewInit /\ LcgIdle /\ SamplerIdle /\ FieldIdle /\ PassIdle /\ LightingIdle /\ CacheIdle
    /\ ProbesIdle

Next ==
    \/ handleColorAdd
    \/ handleColorRemove
    \/ handleDensityChange
    \/ handleColorChange
    \/ handleScaleChange
    \/ onLightChange
    \/ updateCanvasSize
    \/ regeneratePattern
    \/ Commit

-----------------------------------------------------------------------------
(* The sidebar.  Its components call the handlers App handed them at its last
   render, on the colours that render listed, and may call several before App
   renders again.  A run draws either from every input, and creates few
   colours, or from one colour string, and creates more than MAX_COLORS, or
   sets scales only. *)

\* Texts typed into ColorPicker
PickerInputs ==
    {Red, <<"#", "f", "0", "0">>, <<"f", "f", "0", "0", "0", "0">>, <<"r", "e", "d">>, <<" ">>}
\* Colour strings the editor hands over
EditorHexes == {Black, <<"#", "0", "F", "0">>}
\* Texts typed into the density field
InfinityText == <<"I", "n", "f", "i", "n", "i", "t", "y">>
DensityTexts == {<<"2">>, <<"0">>, <<"-", "1">>, <<"a", "b", "c">>, InfinityText, <<>>}
\* Scales a URL state carries, in tenths
ScaleTenths == {0, 1, 40, 50}

\* The double Infinity, kept as the largest integer: no text of the model
\* denotes a finite number that large
Infinity == 32767 * B + (B - 1)

DecimalDigits == SubSeq(UpperDigits, 1, 10)

\* The number of decimal digits a text begins with
LeadingDigits(text) ==
    CHOOSE k \in 0 .. Len(text) :
        /\ \A i \in 1 .. k : text[i] \in Range(DecimalDigits)
        /\ k = Len(text) \/ text[k + 1] \notin Range(DecimalDigits)

RECURSIVE DecimalValue(_)
DecimalValue(digits) ==
    IF digits = <<>> THEN 0
    ELSE 10 * DecimalValue(SubSeq(digits, 1, Len(digits) - 1))
         + DigitValue(digits[Len(digits)])

\* parseFloat(text): an optional sign, then Infinity or decimal digits; NaN
\* when neither follows.  The texts of the model hold no fraction, exponent
\* or leading blank.
parseFloat(text) ==
    LET signed == Len(text) > 0 /\ text[1] \in {"+", "-"}
        body == IF signed THEN Tail(text) ELSE text
        infinite == Len(body) >= 8 /\ SubSeq(body, 1, 8) = InfinityText
        k == LeadingDigits(body)
        magnitude == IF infinite THEN Infinity ELSE DecimalValue(SubSeq(body, 1, k))
    IN  IF infinite \/ k > 0
        THEN [nan |-> FALSE,
              n |-> IF signed /\ text[1] = "-" THEN 0 - magnitude ELSE magnitude]
        ELSE [nan |-> TRUE, n |-> 0]

\* normalizeDensity(densityInput)
normalizeDensity(densityInput) ==
    LET density == parseFloat(densityInput)
    IN  IF density.nan \/ density.n < 0 THEN 1 ELSE density.n

\* !hexInput.trim()
IsBlank(hexInput) == \A i \in DOMAIN hexInput : hexInput[i] = " "

SidebarInit ==
    /\ app = AppStart
    /\ \E entries \in {"every", "one", "scales"} :
          sidebar = [colorsLength |-> 0, nextId |-> 1, entries |-> entries, saved |-> <<>>]
    /\ viz = VizStart(Unlit, 0)
    /\ react = [mounted |-> FALSE, pointDeps |-> NoDeps, dirty |-> TRUE]
    /\ canvas = Blank
    /\ viewLog = LogStart(0)

Varied == sidebar.entries = "every"
Scaling == sidebar.entries = "scales"

\* The ids of the colours the sidebar lists: those of the last render that
\* are still in the palette
Listed == {app.colors[i].id : i \in {j \in DOMAIN app.colors : app.colors[j].id < sidebar.nextId}}

\* ColorPicker's form
handleSubmit ==
    /\ ~Scaling
    /\ app.nextId <= (IF Varied THEN MaxEdited ELSE MAX_COLORS + MaxOver)
    /\ \E hexInput \in (IF Varied THEN PickerInputs ELSE {Red}) :
          LET formattedHex ==
                  IF startsWith(hexInput) THEN hexInput ELSE <<"#">> \o hexInput
          IN  app' = IF IsBlank(hexInput) \/ ~isValidHexColor(formattedHex) THEN app
                     ELSE AfterColorAdd(app, sidebar.colorsLength, formattedHex)
    /\ UNCHANGED <<viz, react, canvas, viewLog, sidebar, harness, cacheVars, probes>>

\* ColorPalette's density field; an empty text stands for '1'
handleDensitySubmit ==
    /\ Varied
    /\ \E colorId \in Listed : \E text \in DensityTexts :
          LET value == IF text = <<>> THEN <<"1">> ELSE text
              density == normalizeDensity(value)
          IN  app' = AfterDensityChange(app, colorId, density)
    /\ UNCHANGED <<viz, react, canvas, viewLog, sidebar, harness, cacheVars, probes>>

onColorRemove ==
    /\ \E colorId \in Listed : app' = AfterColorRemove(app, colorId)
    /\ UNCHANGED <<viz, react, canvas, viewLog, sidebar, harness, cacheVars, probes>>

onColorChange ==
    /\ Varied
    /\ \E colorId \in Listed : \E hex \in EditorHexes :
          app' = AfterColorChange(app, colorId, hex)
    /\ UNCHANGED <<viz, react, canvas, viewLog, sidebar, harness, cacheVars, probes>>

onTemporaryColorChange ==
    /\ Varied
    /\ \E colorId \in Listed : \E hex \in EditorHexes :
          app' = AfterTemporaryColorChange(app, colorId, hex)
    /\ UNCHANGED <<viz, react, canvas, viewLog, sidebar, harness, cacheVars, probes>>

onTemporaryColorClose ==
    /\ Varied
    /\ app' = AfterTemporaryColorClose(app)
    /\ UNCHANGED <<viz, react, canvas, viewLog, sidebar, harness, cacheVars, probes>>

onTemporaryColorSave ==
    /\ Varied
    /\ \E colorId \in Listed : \E hex \in EditorHexes :
          /\ app' = AfterTemporaryColorSave(app, colorId, hex)
          /\ sidebar' = [sidebar EXCEPT !.saved = <<colorId, hex>>]
    /\ UNCHANGED <<viz, react, canvas, viewLog, harness, cacheVars, probes>>

onReset ==
    /\ app' = AfterReset(app)
    /\ UNCHANGED <<viz, react, canvas, viewLog, sidebar, harness, cacheVars, probes>>

\* The URL state is loaded: setScale(newScale)
handleScaleChangeFromURL ==
    /\ Scaling
    /\ \E newScale \in ScaleTenths : app' = [app EXCEPT !.scale = newScale]
    /\ UNCHANGED <<viz, react, canvas, viewLog, sidebar, harness, cacheVars, probes>>

\* ScaleControl's slider moves: onScaleChange(parseFloat(e.target.value)),
\* which is App's handleScaleChange
onScaleChange ==
    /\ Scaling
    /\ \E newScale \in SliderTenths : app' = [app EXCEPT !.scale = newScale]
    /\ UNCHANGED <<viz, react, canvas, viewLog, sidebar, harness, cacheVars, probes>>

\* App renders: the sidebar gets the handlers and the colours of the
\* current state
AppRender ==
    /\ sidebar' = [sidebar EXCEPT !.colorsLength = Len(app.colors),
                                  !.nextId = app.nextId]
    /\ UNCHANGED <<app, viz, react, canvas, viewLog, harness, cacheVars, probes>>

SidebarNext ==
    \/ handleSubmit
    \/ handleDensitySubmit
    \/ onColorRemove
    \/ onColorChange
    \/ onTemporaryColorChange
    \/ onTemporaryColorClose
    \/ onTemporaryColorSave
    \/ onReset
    \/ handleScaleChangeFromURL
    \/ onScaleChange
    \/ AppRender

-----------------------------------------------------------------------------
(* The expansion of a cell's polygon in renderVoronoiToCanvas.  Coordinates
   and factors are exact fractions <<numerator, denominator>> in lowest
   terms with a positive denominator, in place of doubles. *)

MaxCoordinate == 9

RECURSIVE Gcd(_, _)
Gcd(a, b) == IF b = 0 THEN a ELSE Gcd(b, a % b)

Reduce(f) ==
    LET d == Gcd(Abs(f[1]), f[2])
    IN  <<f[1] \div d, f[2] \div d>>

Whole(n) == <<n, 1>>
Sum(f, g) == Reduce(<<f[1] * g[2] + g[1] * f[2], f[2] * g[2]>>)
Difference(f, g) == Reduce(<<f[1] * g[2] - g[1] * f[2], f[2] * g[2]>>)
Product(f, g) == Reduce(<<f[1] * g[1], f[2] * g[2]>>)
Quotient(f, n) == Reduce(<<f[1], f[2] * n>>)

\* Math.round(x): the integer nearest to x, the larger one half-way
MathRound(f) == (2 * f[1] + f[2]) \div (2 * f[2])

\* points.reduce((sum, p) => sum + p[axis], 0)
RECURSIVE SumAxis(_, _, _)
SumAxis(points, axis, k) ==
    IF k = 0 THEN 0 ELSE SumAxis(points, axis, k - 1) + points[k][axis]

\* expandPolygon(points, factor): every vertex moved away from the mean of
\* the vertices
expandPolygon(points, factor) ==
    IF Len(points) = 0 THEN <<>>
    ELSE LET centerX == Quotient(Whole(SumAxis(points, 1, Len(points))), Len(points))
             centerY == Quotient(Whole(SumAxis(points, 2, Len(points))), Len(points))
         IN  [i \in DOMAIN points |->
                 <<Sum(centerX, Product(Difference(Whole(points[i][1]), centerX),
                                        Sum(Whole(1), factor))),
                   Sum(centerY, Product(Difference(Whole(points[i][2]), centerY),
                                        Sum(Whole(1), factor)))>>]

\* A factor that grows from the minimum cell count on
expansionFactorFromMinimum(count) ==
    Product(Quotient(Whole(count - minCells), maxCells - minCells), <<2, 10>>)

\* expansionFactor = (cellCount / 10000) * 0.2
expansionFactor(count) == Product(Quotient(Whole(count), 10000), <<2, 10>>)

\* finalPolygon = expansionFactor > 0 ? expandPolygon(cell, expansionFactor) : cell
finalPolygon(cell, count) ==
    IF expansionFactor(count)[1] > 0
    THEN expandPolygon(cell, expansionFactor(count))
    ELSE [i \in DOMAIN cell |-> <<Whole(cell[i][1]), Whole(cell[i][2])>>]

\* ctx.moveTo / ctx.lineTo on Math.round of every coordinate
RoundedPath(polygon) ==
    [i \in DOMAIN polygon |-> <<MathRound(polygon[i][1]), MathRound(polygon[i][2])>>]

\* Vertices of the cells: corners and a middle point of a small square
Coordinates == {0, 4, MaxCoordinate}
Vertices == Coordinates \X Coordinates

\* voronoi.cellPolygon(i): a closed polygon, its first vertex repeated last
CellPolygons ==
    {<<a, b, c, a>> : a \in Vertices, b \in Vertices, c \in Vertices}

ExpansionInit ==
    \E cell \in CellPolygons : \E tenths \in ScaleTenths \cup {10} :
        expansion = [cell |-> cell, cellCount |-> cellCount(tenths), drawn |-> FALSE,
                     finalPolygon |-> <<>>, path |-> <<>>]

\* One cell of the loop of renderVoronoiToCanvas
DrawCellPolygon ==
    /\ ~expansion.drawn
    /\ expansion' = [expansion EXCEPT
           !.drawn = TRUE,
           !.finalPolygon = finalPolygon(expansion.cell, expansion.cellCount),
           !.path = RoundedPath(finalPolygon(expansion.cell, expansion.cellCount))]
    /\ UNCHANGED <<harness, cacheVars, view, luminance, url>>

-----------------------------------------------------------------------------
(* useURLState inside App.  A render and its effects follow a state change
   before any timer fires or any other event is handled.  The debounced
   writer waits 300 ms and a reset of isUpdatingFromURL 100 ms, so a write
   scheduled while a reset is pending fires after that reset; every other
   order of the timers can happen. *)

MaxWatched == 2
MaxResets == 2

\* The search parameters hold no state, or one that is not valid
NoURLState == [valid |-> FALSE, colors |-> <<>>, scale |-> 0]

\* colors.map(({ hex, density }) => ({ hex, density }))
Serializable(palette) ==
    [i \in DOMAIN palette |-> [hex |-> palette[i].hex, density |-> palette[i].density]]

\* updateURL(colors, scale): the address after replaceState
updateURL(palette, scale) ==
    [valid |-> TRUE, colors |-> Serializable(palette), scale |-> scale]

\* The colours getStateFromURL() makes of the parameters; each gets a new
\* id, numbered from 1 here as the state replaces the whole palette
LoadedColors(address) ==
    [i \in DOMAIN address.colors |->
        [id |-> i, hex |-> address.colors[i].hex, density |-> address.colors[i].density]]

\* Addresses a page is opened with or a navigation leads to
Addresses ==
    {NoURLState, updateURL(<<>>, 10), updateURL(<<[hex |-> Red, density |-> 1]>>, 10),
     updateURL(<<[hex |-> Red, density |-> 1]>>, 40)}

NoWrite == [pending |-> FALSE, colors |-> <<>>, scale |-> 0, behind |-> 0, cause |-> "none"]

URLStart(address) ==
    [address |-> address, isInitialLoad |-> TRUE, isUpdatingFromURL |-> FALSE,
     mounted |-> FALSE, render |-> "none", debounce |-> NoWrite, resets |-> 0,
     written |-> "none", writtenWhileUpdating |-> FALSE, applied |-> FALSE]

URLInit ==
    /\ \E address \in Addresses : url = URLStart(address)
    /\ app = AppStart
    /\ sidebar = SidebarIdle
    /\ viz = VizStart(Unlit, 0)
    /\ react = [mounted |-> FALSE, pointDeps |-> NoDeps, dirty |-> TRUE]
    /\ canvas = Blank
    /\ viewLog = LogStart(0)

\* A call of the debounced function: the pending call, if any, is replaced
debounce(hook, palette, scale, cause) ==
    [hook EXCEPT !.debounce = [pending |-> TRUE, colors |-> palette, scale |-> scale,
                               behind |-> hook.resets, cause |-> cause]]

\* updateURLWithState without the test of isUpdatingFromURL
updateURLWithStateUnguarded(hook, palette, scale, cause) ==
    debounce(hook, palette, scale, cause)

\* updateURLWithState(colors, scale)
updateURLWithState(hook, palette, scale, cause) ==
    IF hook.isUpdatingFromURL THEN hook ELSE debounce(hook, palette, scale, cause)

\* setTimeout(() => { isUpdatingFromURL.current = false }, 100)
setTimeout(hook) == [hook EXCEPT !.resets = @ + 1]

\* colorsChanged of the mount effect
colorsChanged(urlColors, palette) ==
    \/ Len(urlColors) # Len(palette)
    \/ \E i \in DOMAIN urlColors :
          urlColors[i].hex # palette[i].hex \/ urlColors[i].density # palette[i].density

\* The palette and scale after onColorsChange and onScaleChange
Applied(state, palette, scale) ==
    [state EXCEPT !.colors = palette, !.nextId = Len(palette) + 1, !.scale = scale]

\* The mount effect with a valid state in the URL
LoadInitial(hook) ==
    setTimeout([hook EXCEPT
        !.isUpdatingFromURL = TRUE,
        !.isInitialLoad = FALSE,
        !.mounted = TRUE,
        !.applied = colorsChanged(hook.address.colors, app.colors)
                    \/ hook.address.scale # app.scale,
        !.render = IF colorsChanged(hook.address.colors, app.colors)
                      \/ hook.address.scale # app.scale
                   THEN "url" ELSE "none"])

\* The effects of the first commit, in the order of their declaration: the
\* state of the URL is loaded, the update effect sees isInitialLoad false
\* already and calls updateURLWithState on the state of the first render,
\* the popstate listener is added
MountEffects ==
    /\ ~url.mounted
    /\ IF url.address.valid
       THEN /\ app' = Applied(app,
                        IF colorsChanged(url.address.colors, app.colors)
                        THEN LoadedColors(url.address) ELSE app.colors,
                        url.address.scale)
            /\ url' = updateURLWithState(LoadInitial(url), app.colors, app.scale, "mount")
       ELSE /\ app' = app
            /\ url' = updateURLWithState(
                          [url EXCEPT !.isInitialLoad = FALSE, !.mounted = TRUE],
                          app.colors, app.scale, "mount")
    /\ UNCHANGED <<harness, cacheVars, viz, react, canvas, viewLog, sidebar,
                   luminance, expansion>>

Settled == url.mounted /\ url.render = "none"

\* A commit after colors or scale changed: the update effect
UpdateEffect ==
    /\ url.mounted
    /\ url.render # "none"
    /\ url' = [updateURLWithState(url, app.colors, app.scale, url.render)
                  EXCEPT !.render = "none"]
    /\ UNCHANGED <<harness, cacheVars, view, luminance, expansion>>

\* The user adds a colour
AddWatched ==
    /\ Settled
    /\ app.nextId <= MaxWatched
    /\ app' = AfterColorAdd(app, Len(app.colors), Red)
    /\ url' = [url EXCEPT !.render = "edit"]
    /\ UNCHANGED <<harness, cacheVars, viz, react, canvas, viewLog, sidebar,
                   luminance, expansion>>

\* The user removes a colour
RemoveWatched ==
    /\ Settled
    /\ \E i \in DOMAIN app.colors : app' = AfterColorRemove(app, app.colors[i].id)
    /\ url' = [url EXCEPT !.render = "edit"]
    /\ UNCHANGED <<harness, cacheVars, viz, react, canvas, viewLog, sidebar,
                   luminance, expansion>>

\* The user moves the slider to another scale
ScaleWatched ==
    /\ Settled
    /\ \E newScale \in {10, 40} \ {app.scale} : app' = [app EXCEPT !.scale = newScale]
    /\ url' = [url EXCEPT !.render = "edit"]
    /\ UNCHANGED <<harness, cacheVars, viz, react, canvas, viewLog, sidebar,
                   luminance, expansion>>

\* The browser goes to another entry of the history and fires popstate
handlePopState ==
    /\ Settled
    /\ url.resets < MaxResets
    /\ \E address \in Addresses :
          /\ app' = IF address.valid
                     THEN Applied(app, LoadedColors(address), address.scale)
                     ELSE app
          /\ url' = setTimeout([url EXCEPT
                        !.address = address,
                        !.isUpdatingFromURL = TRUE,
                        !.applied = @ \/ address.valid,
                        !.render = IF address.valid THEN "url" ELSE "none"])
    /\ UNCHANGED <<harness, cacheVars, viz, react, canvas, viewLog, sidebar,
                   luminance, expansion>>

\* A timer of 100 ms fires
ResetIsUpdatingFromURL ==
    /\ Settled
    /\ url.resets > 0
    /\ url' = [url EXCEPT !.isUpdatingFromURL = FALSE,
                           !.resets = @ - 1,
                           !.debounce.behind = Max(0, @ - 1)]
    /\ UNCHANGED <<harness, cacheVars, view, luminance, expansion>>

\* The hook after a call of updateURL(colors, scale)
Written(hook, palette, scale, cause) ==
    [hook EXCEPT !.address = updateURL(palette, scale),
                 !.written = cause,
                 !.writtenWhileUpdating = @ \/ hook.isUpdatingFromURL]

\* The timer of the debounced function fires: updateURL unless
\* isUpdatingFromURL is set
debouncedUpdateURL ==
    /\ Settled
    /\ url.debounce.pending
    /\ url.debounce.behind = 0
    /\ url' = [(IF url.isUpdatingFromURL THEN url
                ELSE Written(url, url.debounce.colors, url.debounce.scale,
                             url.debounce.cause))
                  EXCEPT !.debounce = NoWrite]
    /\ UNCHANGED <<harness, cacheVars, view, luminance, expansion>>

URLNext ==
    \/ MountEffects
    \/ UpdateEffect
    \/ AddWatched
    \/ RemoveWatched
    \/ ScaleWatched
    \/ handlePopState
    \/ ResetIsUpdatingFromURL
    \/ debouncedUpdateURL

-----------------------------------------------------------------------------
(* Specifications *)

Spec == Init /\ [][Next]_vars

LcgOnly ==
    LcgInit /\ LightingIdle /\ SamplerIdle /\ FieldIdle /\ PassIdle /\ CacheIdle /\ ViewIdle /\ ProbesIdle
SpecLcg == LcgOnly /\ [][random]_vars

SamplerOnly ==
    SamplerInit /\ LightingIdle /\ LcgIdle /\ FieldIdle /\ PassIdle /\ CacheIdle /\ ViewIdle /\ ProbesIdle
SpecSampler == SamplerOnly /\ [][SamplerNext]_vars

FieldOnly ==
    FieldInit /\ LightingIdle /\ LcgIdle /\ SamplerIdle /\ PassIdle /\ CacheIdle /\ ViewIdle /\ ProbesIdle
SpecField == FieldOnly /\ [][CallGenerateSeededPoints]_vars

DrawsOnly ==
    PassInit /\ LightingIdle /\ LcgIdle /\ SamplerIdle /\ FieldIdle /\ CacheIdle /\ ViewIdle /\ ProbesIdle
SpecDraws == DrawsOnly /\ [][DrawCell]_vars

LightingOnly ==
    LightingInit /\ LcgIdle /\ SamplerIdle /\ FieldIdle /\ PassIdle /\ CacheIdle /\ ViewIdle
    /\ ProbesIdle
SpecLighting == LightingOnly /\ [][CallTransform]_vars

CacheOnly ==
    CacheInit /\ LightingIdle /\ LcgIdle /\ SamplerIdle /\ FieldIdle /\ PassIdle /\ ViewIdle /\ ProbesIdle
SpecCache == CacheOnly /\ [][CallGetCachedColorTransform]_vars

SidebarOnly ==
    SidebarInit /\ LcgIdle /\ SamplerIdle /\ FieldIdle /\ PassIdle /\ LightingIdle /\ CacheIdle
    /\ ProbesIdle
SpecSidebar == SidebarOnly /\ [][SidebarNext]_vars

LuminanceOnly ==
    LuminanceInit /\ LcgIdle /\ SamplerIdle /\ FieldIdle /\ PassIdle /\ LightingIdle /\ CacheIdle
    /\ ViewIdle /\ ExpansionIdle /\ UrlIdle
SpecLuminance == LuminanceOnly /\ [][CallGetColorLuminance]_vars

URLOnly ==
    URLInit /\ LcgIdle /\ SamplerIdle /\ FieldIdle /\ PassIdle /\ LightingIdle /\ CacheIdle
    /\ LuminanceIdle /\ ExpansionIdle
SpecURL == URLOnly /\ [][URLNext]_vars

ExpansionOnly ==
    ExpansionInit /\ LcgIdle /\ SamplerIdle /\ FieldIdle /\ PassIdle /\ LightingIdle /\ CacheIdle
    /\ ViewIdle /\ LuminanceIdle /\ UrlIdle
SpecExpansion == ExpansionOnly /\ [][DrawCellPolygon]_vars

-----------------------------------------------------------------------------
(* Claims *)

Max0(n) == IF n > 0 THEN n ELSE 0

\* The four values the point field is generated from
CurrentDeps ==
    <<cellCount(app.scale), viz.canvasSize.width, viz.canvasSize.height, viz.seed>>

\* Their values when the point effect last ran
LastDeps == IF react.pointDeps = NoDeps THEN NoDeps ELSE SubSeq(react.pointDeps, 1, 4)

\* The step is a commit in which the point effect ran: on mount, and later
\* whenever the commit schedules another render
RanPointEffect == react.dirty /\ (~react.mounted \/ react'.dirty)

\* C1: the seed changes only in regeneratePattern: palette, scale, light and
\* resize steps and commits leave it unchanged, and until Regenerate is
\* first pressed it is the seed drawn at construction.
C1_SeedChangesOnlyOnRegenerate ==
    [][/\ viz'.seed # viz.seed => regeneratePattern
       /\ ~viewLog'.regenerated => viz'.seed = viewLog'.seed0]_vars

\* Regenerate has changed the seed, and the palette, the scale, the light
\* and the canvas size have changed as well
C1_Witness ==
    /\ Interactive
    /\ viewLog.regenerated
    /\ viz.seed # viewLog.seed0
    /\ Len(app.colors) = 2
    /\ app.scale # 10
    /\ viz.lightSource # Unlit
    /\ viz.canvasSize.width = 150

\* C2: cachedPoints is recomputed only when cellCount, canvasSize.width,
\* canvasSize.height or seed differs from the last computation; a change of
\* the palette or of the light leaves those four and cachedPoints untouched.
C2_PointsRecomputedOnlyOnDepsChange ==
    [][/\ RanPointEffect => CurrentDeps # LastDeps
       /\ viz'.cachedPoints # viz.cachedPoints => CurrentDeps # LastDeps
       /\ (app'.colors # app.colors \/ viz'.lightSource # viz.lightSource) =>
             /\ viz'.cachedPoints = viz.cachedPoints
             /\ CurrentDeps' = CurrentDeps]_vars

\* Colours were added and the light changed, the canvas was drawn since, and
\* the points are still those of the four values
C2_Witness ==
    /\ Interactive
    /\ Len(app.colors) = 2
    /\ viz.lightSource # Unlit
    /\ canvas.seeded
    /\ Len(canvas.fills) > 0
    /\ react.pointDeps = CurrentDeps
    /\ viz.cachedPoints = PointField(cellCount(app.scale), viz.canvasSize.width,
                                     viz.canvasSize.height, viz.seed)
    /\ canvas.points = viz.cachedPoints.head

\* C4: a render pass fills cell i with the hex of
\* getSeededRandomColor(transformedColors, seed + i), so two passes over the
\* same seed, palette and points fill every cell alike.
C4_CellFillsFollowSeed ==
    [][react.dirty =>
          LET memo == transformedColors(app.colors, viz.lightSource,
                                        colorTransformCache, cacheLog.stores)
          IN  \A i \in DOMAIN canvas'.fills :
                 canvas'.fills[i] =
                     getSeededRandomColor(memo.colors, viz.seed + (i - 1)).hex]_vars

\* C3: generateSeededPoints returns exactly count points, and point i is
\* (d(2i) * width, d(2i+1) * height), d(0), d(1), ... being the successive
\* outputs of one stream started from seed.
C3_PointsFollowOneStream ==
    field.called =>
        /\ Len(field.points) = Max0(field.count)
        /\ \A i \in 0 .. (field.count - 1) :
              field.points[i + 1] =
                  <<Scale(StreamState(field.seed, 2 * i + 1), field.width),
                    Scale(StreamState(field.seed, 2 * i + 2), field.height)>>

C3_Witness ==
    /\ field.called
    /\ field.count >= 2
    /\ Len(field.points) = field.count
    /\ field.width # field.height
    /\ field.points[1] # field.points[2]

\* C5: on two palettes with the same ids and densities in the same order and
\* any hex values, getSeededRandomColor returns the colour at the same
\* position, for every seed.
C5_ChoiceIgnoresHex ==
    (sampler.called /\ Len(sampler.colors) >= 1) =>
        /\ IsColor(sampler.result) <=> IsColor(sampler.result2)
        /\ IsColor(sampler.result) =>
              /\ sampler.result.id = sampler.result2.id
              /\ sampler.result = sampler.colors[sampler.result.id]
              /\ sampler.result2 = sampler.other[sampler.result.id]

C5_Witness ==
    /\ sampler.called
    /\ Len(sampler.colors) >= 2
    /\ IsColor(sampler.result)
    /\ sampler.result.id = 2
    /\ sampler.result.hex # sampler.result2.hex
    /\ sampler.colors[1].hex # sampler.other[1].hex

\* The cumulative density of the first k colours reaches or exceeds
\* r = (first output of the stream seeded with seed) * totalDensity
Reaches(colors, seed, k) ==
    RandomValueLeq(StreamState(seed, 1), calculateTotalDensity(colors),
                   SumDensity(colors, k))

\* C6: with two or more colours and totalDensity > 0, getSeededRandomColor
\* returns the first colour, in palette order, whose cumulative density
\* reaches or exceeds r.
C6_FirstCumulativeReachingR ==
    (sampler.called /\ Len(sampler.colors) >= 2
        /\ calculateTotalDensity(sampler.colors) > 0) =>
        \E k \in 1 .. Len(sampler.colors) :
            /\ Reaches(sampler.colors, sampler.seed, k)
            /\ \A j \in 1 .. (k - 1) : ~Reaches(sampler.colors, sampler.seed, j)
            /\ sampler.result = sampler.colors[k]

C6_Witness ==
    /\ sampler.called
    /\ Len(sampler.colors) >= 3
    /\ calculateTotalDensity(sampler.colors) > 0
    /\ sampler.result = sampler.colors[2]
    /\ sampler.colors[2].density < sampler.colors[3].density
    /\ sampler.colors[1].density > 0

\* C7: over the 10,000 seeded draws of one pass with the palette
\* [{#FF0000, 3}, {#0000FF, 1}], the fraction of red cells lies within
\* 0.75 +/- 0.02, for every base seed.
C7_RedFractionWithinTolerance ==
    pass.i = maxCells =>
        /\ pass.red * 100 >= 73 * maxCells
        /\ pass.red * 100 <= 77 * maxCells

\* The remainder of the mathematical modulus: in [0, 2^32)
EuclidMod(r) ==
    IF ~r.neg THEN r
    ELSE IF r.lo = 0 THEN [neg |-> FALSE, hi |-> B - r.hi, lo |-> 0]
    ELSE [neg |-> FALSE, hi |-> B - 1 - r.hi, lo |-> B - r.lo]

RECURSIVE ModState(_, _)
ModState(seed, k) ==
    IF k = 0 THEN createSeededRandom(seed) ELSE EuclidMod(LcgStep(ModState(seed, k - 1)))

\* C8: for every integer seed every output lies in [0, 1) and equals
\* state' / 2^32, state' = (state * 1664525 + 1013904223) mod 2^32 in [0, 2^32),
\* the initial state being the seed.
C8_OutputsInUnitInterval ==
    lcg.draws > 0 =>
        /\ ~lcg.out.neg
        /\ lcg.out = ModState(lcg.seed, lcg.draws)

CacheKeys(cache) == {cache[i].key : i \in DOMAIN cache}
CacheEntries(cache) == {cache[i] : i \in DOMAIN cache}

\* C9: after any sequence of getCachedColorTransform calls the cache holds at
\* most 1000 entries.
C9_CacheAtMostMaxEntries == Len(colorTransformCache) <= MAX_CACHE_SIZE

C9_Witness ==
    /\ Len(colorTransformCache) = MAX_CACHE_SIZE
    /\ cacheLog.call.outcome = "stored"
    /\ cacheLog.call.evicted # None
    /\ cacheLog.stores > MAX_CACHE_SIZE

Uncached(key) == transformColorForLighting(key[1], FindLightSource(key[2]))

\* C11: a call of getCachedColorTransform with a registered light id returns
\* what the uncached transformColorForLighting returns for the same colour
\* and light, whatever was stored and evicted before.
C11_CacheIsTransparent ==
    cacheLog.call.outcome \in {"hit", "stored"} =>
        cacheLog.call.returned = Uncached(cacheLog.call.key)

\* A hit on a full cache after an eviction
C11_Witness ==
    /\ cacheLog.call.outcome = "hit"
    /\ cacheLog.evictions > 0
    /\ Len(colorTransformCache) = MAX_CACHE_SIZE
    /\ cacheLog.call.returned = Uncached(cacheLog.call.key)

\* C12: a call with the reserved light id "natural" returns the input hex
\* unchanged, performs no transform and leaves the cache as it was.
C12_NaturalIsIdentity ==
    [][cacheLog'.call.key[2] = "natural" =>
          /\ cacheLog'.call.returned = cacheLog'.call.key[1]
          /\ cacheLog'.call.outcome = "no light source"
          /\ cacheLog'.stores = cacheLog.stores
          /\ colorTransformCache' = colorTransformCache]_vars

\* A call under "natural" on a full cache, for a colour the cache holds under
\* a registered light
C12_Witness ==
    /\ cacheLog.call.outcome = "no light source"
    /\ cacheLog.call.key[2] = "natural"
    /\ cacheLog.call.returned = cacheLog.call.key[1]
    /\ Len(colorTransformCache) = MAX_CACHE_SIZE
    /\ \E i \in {1, 2} : colorTransformCache[i].key[1] = cacheLog.call.key[1]

\* C13: when the decoding of the string gives NaN in some channel, the
\* transform under a registered light returns "#000000"; no string encoded
\* from NaN is returned or stored in the cache.
C13_NaNGivesBlack ==
    LET rgb == hexToRgb(lighting.hexColor)
    IN  /\ (lighting.called /\ lighting.outcome = "stored"
               /\ "NaN" \in {rgb.r, rgb.g, rgb.b}) =>
              /\ lighting.returned = Black
              /\ colorTransformCache[1].value = Black
        /\ lighting.returned # NotAHex
        /\ \A i \in DOMAIN colorTransformCache : colorTransformCache[i].value # NotAHex

\* Only the red channel decodes to NaN, and the result is stored
C13_Witness ==
    LET rgb == hexToRgb(lighting.hexColor)
    IN  /\ lighting.called
        /\ lighting.outcome = "stored"
        /\ rgb.r = "NaN" /\ rgb.g = "finite" /\ rgb.b = "zero"
        /\ lighting.returned = Black
        /\ Len(colorTransformCache) = 1

\* ^#[0-9A-F]{6}$
IsSixUpperDigits(hex) ==
    /\ Len(hex) = 7
    /\ hex[1] = "#"
    /\ \A i \in 2 .. 7 : hex[i] \in Range(UpperDigits)

\* C14: after any sequence of palette operations (additions, colour changes,
\* saved temporary colours, density changes, removals, resets) the hex of
\* every colour of the palette is '#' followed by six upper-case hexadecimal
\* digits.
C14_EveryHexIsSixUpperDigits ==
    \A i \in DOMAIN app.colors : IsSixUpperDigits(app.colors[i].hex)

\* C15: after any sequence of palette operations (additions, densities
\* submitted through normalizeDensity and handleDensityChange, removals,
\* resets) the density of every colour of the palette is a finite number
\* that is at least 0.
C15_EveryDensityIsFiniteAndNotNegative ==
    \A i \in DOMAIN app.colors :
        /\ app.colors[i].density >= 0
        /\ app.colors[i].density # Infinity

\* C16: after any sequence of additions, removals, resets and edits, several
\* additions issued before App renders again included, the palette holds at
\* most MAX_COLORS colours.
C16_AtMostMaxColors == Len(app.colors) <= MAX_COLORS

\* C20: for every scale App holds, the values outside 0.1 .. 4.0 that a URL
\* state can carry included, the cellCount VoronoiVisualization derives from
\* it lies in minCells .. maxCells.
C20_CellCountWithinBounds ==
    LET count == cellCount(app.scale)
    IN  minCells <= count /\ count <= maxCells

\* C18: called on an empty array, getSeededRandomColor and
\* getWeightedRandomColor raise EmptyPalette, whatever the seed or the random
\* outcome.
C18_EmptyArrayRaises ==
    Len(sampler.colors) = 0 =>
        /\ sampler.called => sampler.result = EmptyPalette
        /\ sampler.calledWeighted => sampler.weighted = EmptyPalette

C18_Witness ==
    /\ Len(sampler.colors) = 0
    /\ sampler.called
    /\ sampler.calledWeighted
    /\ sampler.seed = 634785765
    /\ sampler.result = EmptyPalette
    /\ sampler.weighted = EmptyPalette

\* C19: for two or more colours whose densities sum to 0,
\* getSeededRandomColor returns colors[Math.floor(u * colors.length)], a
\* member of the palette, for every seed.
C19_ZeroTotalGivesMember ==
    (/\ sampler.called
     /\ Len(sampler.colors) >= 2
     /\ calculateTotalDensity(sampler.colors) = 0) =>
        /\ IsColor(sampler.result)
        /\ \E i \in DOMAIN sampler.colors : sampler.result = sampler.colors[i]

\* C17: a render pass over an empty palette fills the canvas with the flat
\* neutral colour and returns: no cell is drawn and no colour is sampled.
C17_EmptyPaletteDrawsFlat ==
    [][(react.dirty /\ Len(app.colors) = 0) =>
          /\ canvas'.flat = "#f3f4f6"
          /\ canvas'.cells = 0
          /\ canvas'.fills = <<>>]_vars

\* A palette that held a colour is empty again and has been drawn, with
\* points at hand
C17_Witness ==
    /\ react.mounted
    /\ ~react.dirty
    /\ Len(app.colors) = 0
    /\ app.nextId > 1
    /\ viz.cachedPoints.length > 0
    /\ canvas.flat = "#f3f4f6"
    /\ canvas.cells = 0

\* C21: the scale 0.1 gives exactly 100 cells and the scale 4.0 exactly
\* 10000, and for every value of the slider, 0.1 to 4.0, the count
\* ScaleControl shows is the count VoronoiVisualization draws.
C21_ScaleControlShowsTheCellCount ==
    app.scale \in SliderTenths =>
        /\ getCellCount(app.scale) = cellCount(app.scale)
        /\ app.scale = 1 => getCellCount(app.scale) = minCells
        /\ app.scale = 40 => getCellCount(app.scale) = maxCells

\* The slider was moved to a scale whose interpolation is not a whole number
C21_Witness ==
    /\ Scaling
    /\ app.scale = 2
    /\ getCellCount(app.scale) = 354
    /\ cellCount(app.scale) = 354

\* C22: getColorLuminance linearises a channel exactly as srgbToLinear does:
\* for every 8-bit value both take the same branch, the quotient by 12.92
\* or the power 2.4, and so give the same linear value.
C22_LuminanceLinearisesAsTheTransform ==
    luminance.called =>
        /\ luminance.own.r.branch = luminance.engine.r.branch
        /\ luminance.own = luminance.engine

\* A call on the largest channel value below both thresholds, and one on
\* the smallest above both
C22_Witness ==
    /\ luminance.called
    /\ luminance.r = 10 /\ luminance.g = 11
    /\ luminance.own.r.branch = "quotient"
    /\ luminance.own.g.branch = "power"

\* The vertex v of a polygon with the given vertex sums, moved by
\* centroid + (v - centroid) * (1 + factor), on one axis, as one fraction
Moved(v, total, n, factor) ==
    Reduce(<<total * factor[2] + (n * v - total) * (factor[2] + factor[1]),
             n * factor[2]>>)

VerticesMoved(factor) ==
    \A i \in DOMAIN expansion.cell : \A axis \in {1, 2} :
        expansion.finalPolygon[i][axis] =
            Moved(expansion.cell[i][axis],
                  SumAxis(expansion.cell, axis, Len(expansion.cell)),
                  Len(expansion.cell), factor)

C24_TemporaryEditLeavesPalette ==
    /\ [](/\ Len(visualizationColors(app)) = Len(app.colors)
          /\ \A j \in DOMAIN app.colors :
                /\ visualizationColors(app)[j].id = app.colors[j].id
                /\ visualizationColors(app)[j].density = app.colors[j].density
                /\ visualizationColors(app)[j].hex # app.colors[j].hex
                      => app.colors[j].id = app.temporaryColorId)
    /\ [][onTemporaryColorChange => app'.colors = app.colors]_vars

\* A colour is being edited and the visualisation shows another hex for it
C24_Witness ==
    \E j \in DOMAIN app.colors :
        /\ app.colors[j].id = app.temporaryColorId
        /\ visualizationColors(app)[j].hex = app.temporaryColorHex
        /\ visualizationColors(app)[j].hex # app.colors[j].hex

\* C25: after handleTemporaryColorSave(colorId, hex) the colour colorId of
\* the palette has that hex, temporaryColorId and temporaryColorHex are both
\* null, and the visualisation colours are the palette again.
C25_SaveWritesPaletteAndClears ==
    [][\A colorId \in Listed : \A hex \in EditorHexes :
          (sidebar'.saved = <<colorId, hex>> /\ onTemporaryColorSave) =>
              /\ \E j \in DOMAIN app'.colors : app'.colors[j].id = colorId
              /\ \A j \in DOMAIN app'.colors :
                    app'.colors[j].id = colorId => app'.colors[j].hex = hex
              /\ app'.temporaryColorId = NoId
              /\ app'.temporaryColorHex = NoHex
              /\ visualizationColors(app') = app'.colors]_vars

\* The editor saved black on the first colour: the palette holds it and
\* nothing is being edited
C25_Witness ==
    /\ sidebar.saved = <<1, Black>>
    /\ Len(app.colors) = 2
    /\ app.colors[1].id = 1 /\ app.colors[1].hex = Black
    /\ app.temporaryColorId = NoId
    /\ app.temporaryColorHex = NoHex

\* C30: after any sequence of add, remove, reset, density edit, temporary
\* change, save and close, temporaryColorId and temporaryColorHex are both
\* null or both not null, and a temporaryColorId that is not null is the id
\* of a colour of the palette.
C30_TemporaryIdNamesPaletteColor ==
    /\ app.temporaryColorId = NoId <=> app.temporaryColorHex = NoHex
    /\ app.temporaryColorId # NoId =>
           \E j \in DOMAIN app.colors : app.colors[j].id = app.temporaryColorId

\* C29: for two or more colours with densities that are not negative and a
\* total density above 0, getSeededRandomColor never returns a colour of
\* density 0, whatever the seed.
C29_NeverReturnsZeroDensity ==
    (/\ sampler.called
     /\ Len(sampler.colors) >= 2
     /\ \A i \in DOMAIN sampler.colors : sampler.colors[i].density >= 0
     /\ calculateTotalDensity(sampler.colors) > 0)
        => IsColor(sampler.result) /\ sampler.result.density # 0

\* C28: in every render pass with a palette that is not empty the points
\* drawn are the seeded point field of the current cell count, canvas size
\* and seed: they are as many as cellCount, and points that are not seeded
\* are never drawn, also in the first render after mount and in the render
\* right after a change of scale or a regeneration.
C28_RenderDrawsCurrentSeededField ==
    [][(react.dirty /\ Len(app.colors) > 0) =>
          /\ canvas'.seeded
          /\ canvas'.cells = cellCount(app.scale)
          /\ canvas'.points =
                PointField(cellCount(app.scale), viz.canvasSize.width,
                           viz.canvasSize.height, viz.seed).head]_vars

\* The address encodes the state: opening it gives this palette and scale.
\* An address without a valid state leaves the state of the first render.
Encodes(address, state) ==
    IF address.valid THEN address = updateURL(state.colors, state.scale)
    ELSE state.colors = AppStart.colors /\ state.scale = AppStart.scale

\* C26: a state change applied from the URL, on mount or on popstate, never
\* causes a URL write: updateURL is not called while isUpdatingFromURL is
\* set, and is never called for a state that was loaded from the URL.
C26_NoWriteOfLoadedState ==
    /\ ~url.writtenWhileUpdating
    /\ url.written # "url"

\* A state of the URL was applied, on mount or on popstate, its render and
\* its timer are over, and nothing was ever written
C26_Witness ==
    /\ Settled
    /\ url.applied
    /\ url.resets = 0
    /\ ~url.debounce.pending
    /\ ~url.isUpdatingFromURL
    /\ url.written = "none"
    /\ Encodes(url.address, app)
    /\ app.scale = 40

\* C27: whenever no timer of the debounced writer and no timer that resets
\* isUpdatingFromURL is pending, the URL encodes the current palette and
\* scale, for every interleaving of edits, navigations and timers.
C27_URLEncodesStateWhenIdle ==
    (Settled /\ ~url.debounce.pending /\ url.resets = 0) => Encodes(url.address, app)

=============================================================================
